---- MODULE Spec2Model ----
(***************************************************************************)
(* fair_enough (fairpy/items/fair_enough.py): the 'Fair Enough' algorithm  *)
(* of Kurokawa, Procaccia and Wang, as implemented by the repository.      *)
(*                                                                         *)
(* One call of fair_enough(agents, items) is a state machine whose program *)
(* counter pc walks through the stages of the function.  The helpers of    *)
(* fairpy.items.fair_enough_utils and the AdditiveAgent methods are not in *)
(* the source tree; they are modelled from the specification and from the  *)
(* doctests of fair_enough, which fix their behaviour on the documented    *)
(* examples.                                                               *)
(*                                                                         *)
(* Items are the numbers 1..m (single-character item names "a","b",... in  *)
(* alphabetical order), agents are the indices 1..n of the input list, and *)
(* their names sort in input order.                                        *)
(***************************************************************************)
EXTENDS Integers, Sequences, FiniteSets, TLC

\* ---------------------------------------------------------------- bounds
MaxAgents == 3
MaxItems == 6
MaxVal == 2
MaxStudents == 3
MaxCourses == 3
MaxCapacity == 3
MaxSeats == 2

\* Python's None, the initial entry of the list allocations: a value that is
\* not a set of items (items are positive numbers).
None == {-1}

\* The exception of the MMS oracle on an instance too large for it, and its
\* absence.
NoError == "none"
ResourceExhausted == "ResourceExhausted"

VARIABLES
    agents,           \* input: agents[a][i] is the value of item i to agent a
    items,            \* input: the set of items
    pc,               \* position in fair_enough
    agents_dict,      \* the agents still active (keys of agents_dict)
    allocations,      \* allocations[a]: None or a set of items
    gamma,            \* <<numerator, denominator>> of calc_gamma(len(agents))
    mms,              \* mms[a]: agn_v.mms
    items_remaining,  \* list of unallocated items
    tmp_items_list,   \* snapshot list used by Stages 3-5
    aq_items,         \* aq_items[a]: the list ag.aq_items
    has_eliminate,    \* loop flag of Stages 3-5
    iter_count,       \* iteration counter of Stages 6-7
    assigned,         \* history: <<stage, active agents, pool>> at assignment
    residual,         \* history: <<items, agents>> at entry to Stages 6-7
    call,             \* number of the current call (1 or 2)
    firstResult,      \* history: allocations returned by the first call
    error             \* the exception that ended the call, if any

\* The state of one call of course_allocation_by_proxy_auction.
VARIABLES
    instance,         \* input: valuations, agent_capacities, item_capacities
    auction_pc,       \* position in course_allocation_by_proxy_auction
    list_of_course_preference,  \* per agent, the courses in bidding order
    bids_coins,       \* bids_coins[a]: the bids of agent a
    Ac,               \* Ac[c]: the bids that hold a seat of course c
    active,           \* loop flag of the auction
    turn,             \* the agent whose turn it is in the current pass (i)
    bundles,          \* the result: agent -> courses
    seen              \* history: the values of Ac at the start of the passes

fairEnoughVars ==
    <<agents, items, pc, agents_dict, allocations, gamma, mms,
      items_remaining, tmp_items_list, aq_items, has_eliminate,
      iter_count, assigned, residual, call, firstResult, error>>

auctionVars ==
    <<instance, auction_pc, list_of_course_preference, bids_coins, Ac,
      active, turn, bundles, seen>>

vars == <<fairEnoughVars, auctionVars>>

\* ------------------------------------------------------------ utilities
Range(s) == {s[i] : i \in 1..Len(s)}

Min(S) == CHOOSE x \in S : \A y \in S : x <= y
Max(S) == CHOOSE x \in S : \A y \in S : x >= y

RECURSIVE Pow2(_)
Pow2(k) == IF k = 0 THEN 1 ELSE 2 * Pow2(k - 1)

\* list.remove(x): drops the first occurrence of x.
RECURSIVE Remove(_, _)
Remove(s, x) ==
    IF s = <<>> THEN <<>>
    ELSE IF Head(s) = x THEN Tail(s)
    ELSE <<Head(s)>> \o Remove(Tail(s), x)

\* The ascending list of a set of items (list.sort() on distinct items).
RECURSIVE SortedSeq(_)
SortedSeq(S) ==
    IF S = {} THEN <<>>
    ELSE LET x == Min(S) IN <<x>> \o SortedSeq(S \ {x})

Reverse(s) == [i \in 1..Len(s) |-> s[Len(s) + 1 - i]]

\* items_remaining.sort()
RECURSIVE Insert(_, _)
Insert(s, x) ==
    IF s = <<>> THEN <<x>>
    ELSE IF x <= Head(s) THEN <<x>> \o s
    ELSE <<Head(s)>> \o Insert(Tail(s), x)

RECURSIVE Sort(_)
Sort(s) == IF s = <<>> THEN <<>> ELSE Insert(Sort(Tail(s)), Head(s))

\* ------------------------------------------------------------ valuations
\* AdditiveAgent.value of a set of items.
RECURSIVE value(_, _)
value(val, S) ==
    IF S = {} THEN 0
    ELSE LET i == CHOOSE x \in S : TRUE IN val[i] + value(val, S \ {i})

\* AdditiveAgent.value of a list of items: every entry of the list counts.
RECURSIVE valueList(_, _)
valueList(val, s) ==
    IF s = <<>> THEN 0 ELSE val[Head(s)] + valueList(val, Tail(s))

\* The sums of the bins, in ascending order, of every way to add the items
\* of todo to the bins whose sums are in S; bins are interchangeable.
RECURSIVE BinSums(_, _, _, _)
BinSums(val, todo, c, S) ==
    IF todo = <<>> THEN S
    ELSE BinSums(val, Tail(todo), c,
                 {Sort([s EXCEPT ![k] = @ + val[Head(todo)]]) :
                     s \in S, k \in 1..c})

\* AdditiveAgent.value_1_of_c_MMS(c): the 1-out-of-c maximin share of the
\* agent over all the items it values, the largest over all partitions into
\* c bins of the smallest bin.
value_1_of_c_MMS(val, c) ==
    LET S == BinSums(val, SortedSeq(DOMAIN val), c, {[k \in 1..c |-> 0]})
    IN  Max({Min(Range(s)) : s \in S})

\* The ascending sums s of the bins after v > 0 is added to the bin at
\* position k, the last bin of its sum.
AddToBin(s, k, v) ==
    LET x == s[k] + v
        p == Cardinality({j \in (k + 1)..Len(s) : s[j] < x})
    IN  [j \in 1..Len(s) |->
            IF j < k THEN s[j]
            ELSE IF j < k + p THEN s[j + 1]
            ELSE IF j = k + p THEN x
            ELSE s[j]]

\* The ascending sums of the bins of every way to put the items of todo
\* into c bins whose sums are in S; of bins with the same sum only one is
\* tried.
RECURSIVE BinSumsOver(_, _, _, _)
BinSumsOver(val, todo, c, S) ==
    IF todo = <<>> THEN S
    ELSE BinSumsOver(val, Tail(todo), c,
             UNION {{AddToBin(s, k, val[Head(todo)]) :
                        k \in {j \in 1..c : j = c \/ s[j] # s[j + 1]}} :
                    s \in S})

\* The 1-out-of-c maximin share of the agent over the set S of items:
\* the largest, over the partitions of S into c bins, of the smallest sum.
value_1_of_c_MMS_over(val, S, c) ==
    LET T == BinSumsOver(val, SortedSeq(S), c, {[k \in 1..c |-> 0]})
    IN  Max({s[1] : s \in T})

\* calc_gamma(n) = 2*oddfloor(n) / (3*oddfloor(n) - 1), as <<num, den>>.
calc_gamma(n) ==
    LET oddfloor == IF n % 2 = 1 THEN n ELSE n - 1
    IN  <<2 * oddfloor, 3 * oddfloor - 1>>

\* v >= g * m for the fraction g = <<num, den>> (den > 0 when n >= 1).
AtLeastGammaTimes(v, g, m) == v * g[2] >= g[1] * m

\* ------------------------------------------ helpers of fair_enough_utils
NoItem == 0

\* get_gmm_item: the first item, in the agent's ascending-value order of the
\* remaining items, that is worth at least gamma * mms; NoItem if none.
get_gmm_item(val, lst, g, m) ==
    LET ok == {p \in 1..Len(lst) : AtLeastGammaTimes(val[lst[p]], g, m)}
    IN  IF ok = {} THEN NoItem
        ELSE lst[CHOOSE p \in ok : \A q \in ok :
                    \/ val[lst[p]] < val[lst[q]]
                    \/ val[lst[p]] = val[lst[q]] /\ p <= q]

\* Position of the first most valuable item of a non-empty list (max()).
ArgMaxPos(val, lst) ==
    CHOOSE p \in 1..Len(lst) : \A q \in 1..Len(lst) :
        \/ val[lst[p]] > val[lst[q]]
        \/ val[lst[p]] = val[lst[q]] /\ p <= q

\* cycle_allocation: each agent of order in turn moves its most valuable
\* item of the snapshot list into its working bundle; stops on an empty list.
RECURSIVE cycle_allocation(_, _, _, _)
cycle_allocation(vals, order, aq, tmp) ==
    IF order = <<>> \/ tmp = <<>> THEN <<aq, tmp>>
    ELSE LET a == Head(order)
             it == tmp[ArgMaxPos(vals[a], tmp)]
         IN  cycle_allocation(vals, Tail(order),
                              [aq EXCEPT ![a] = Append(@, it)],
                              Remove(tmp, it))

\* get_highest_value: the agent's second acquired item together with its
\* most valuable item of the snapshot list: <<value, bundle_items>>.
get_highest_value(val, aq, tmp) ==
    LET best == tmp[ArgMaxPos(val, tmp)]
    IN  <<val[aq[2]] + val[best], <<best>>>>

\* The items of lst at the positions P, as a set.
ItemsAt(lst, P) == {lst[p] : p \in P}

\* Index of a 2-partition in the enumeration of the candidates: the first
\* item of the list is the most significant digit.
RECURSIVE PartitionIndex(_, _)
PartitionIndex(P, len) ==
    IF P = {} THEN 0
    ELSE LET p == CHOOSE x \in P : TRUE
         IN  Pow2(len - p) + PartitionIndex(P \ {p}, len)

\* partition_1_of_c_MMS(2, lst): a partition <<H1, H2>> of the list whose
\* smaller half is as valuable as possible; the first such candidate wins.
partition_1_of_c_MMS(val, lst) ==
    LET len == Len(lst)
        all == 1..len
        low(P) == LET v1 == value(val, ItemsAt(lst, all \ P))
                      v2 == value(val, ItemsAt(lst, P))
                  IN  IF v1 < v2 THEN v1 ELSE v2
        top == Max({low(P) : P \in SUBSET all})
        tops == {P \in SUBSET all : low(P) = top}
        first == Min({PartitionIndex(P, len) : P \in tops})
        P0 == CHOOSE P \in tops : PartitionIndex(P, len) = first
    IN  <<ItemsAt(lst, all \ P0), ItemsAt(lst, P0)>>

\* create_envy_graph: a -> b iff a values b's bundle more than its own.
create_envy_graph(vals, d, aq) ==
    {e \in d \X d :
        /\ e[1] # e[2]
        /\ valueList(vals[e[1]], aq[e[1]]) < valueList(vals[e[1]], aq[e[2]])}

\* The directed cycles of the graph, each listed from its smallest agent.
Cycles(E, d) ==
    {c \in UNION {[1..k -> d] : k \in 2..Cardinality(d)} :
        /\ \A i, j \in DOMAIN c : i # j => c[i] # c[j]
        /\ \A i \in DOMAIN c : c[1] <= c[i]
        /\ \A i \in DOMAIN c : <<c[i], c[(i % Len(c)) + 1]>> \in E}

\* handle_cycles on one cycle: every agent of the cycle takes the bundle of
\* the agent it envies, its successor on the cycle.
RotateBundles(aq, c) ==
    [a \in DOMAIN aq |->
        IF \E i \in DOMAIN c : c[i] = a
        THEN LET i == CHOOSE j \in DOMAIN c : c[j] = a
             IN  aq[c[(i % Len(c)) + 1]]
        ELSE aq[a]]

\* The agents nobody envies (in-degree 0).
Unenvied(E, d) == {a \in d : \A b \in d : <<b, a>> \notin E}

\* ------------------------------------------------- pieces of fair_enough
\* sorted(agents_dict.items()): the active agents in name order.
SortedAgents(d) == SortedSeq(d)

\* The threshold factor without the approximation: gamma = 1.
InitialGamma_One(n) == <<1, 1>>

\* gamma = calc_gamma(len(agents)), computed once per call.
InitialGamma(n) == calc_gamma(n)

\* agn_v.mms = agn_v.value_1_of_c_MMS(len(agents_dict)), once per call.
InitialMMS(val, n) == value_1_of_c_MMS(val, n)

\* The eliminated agent is recorded with no item.
Stage1Bundle_Nothing(g) == {}

\* allocations[agnt_idx] = set(gmms_item), for a one-character item name.
Stage1Bundle(g) == {g}

\* The partition of Stage 2 made by p2, the agent that chooses.
Stage2Partition_ByChooser(val_p1, val_p2, rem) ==
    partition_1_of_c_MMS(val_p2, rem)

\* mms_2_part = p1.partition_1_of_c_MMS(2, items_remaining), for
\* p1, p2 = agents_dict.values()
Stage2Partition(val_p1, val_p2, rem) == partition_1_of_c_MMS(val_p1, rem)

\* The halves taken the other way round: p2 is left with the half it values
\* less.
Stage2Take_Swapped(val_1, val_2) == IF val_1 < val_2 THEN <<2, 1>> ELSE <<1, 2>>

\* k1, k2 = 1, 0, or 0, 1 when val_1 < val_2: the halves that p1 and p2
\* take, as positions 1 and 2 of the partition.
Stage2Take(val_1, val_2) == IF val_1 < val_2 THEN <<1, 2>> ELSE <<2, 1>>

\* The loop condition without the test of the pool.
WhileStage35_NoPoolTest(h, rem, d) == h /\ d # {}

\* The loop condition without the flag has_eliminate.
WhileStage35_NoFlag(h, rem, d) == rem # <<>> /\ d # {}

\* while has_eliminate and items_remaining and agents_dict
WhileStage35(h, rem, d) == h /\ rem # <<>> /\ d # {}

\* The comparison of Stage 5 with the agent's share left out:
\* potential_value >= gamma.
ReachesGMMS_NoShare(potential_value, g, m) == potential_value * g[2] >= g[1]

\* The threshold factor taken anew from the number of active agents d.
ThresholdGamma_Recomputed(g, d) == calc_gamma(Cardinality(d))

\* The gamma that the tests of Stage 1 (get_gmm_item(agn_v, items_remaining,
\* gamma)) and Stage 5 (gamma * p.mms) use: the local variable, whatever the
\* set d of active agents.
ThresholdGamma(g, d) == g

\* The share taken anew over the items rem that are unallocated, for the
\* number n of agents of the call.
ThresholdMMS_OverPool(m, val, rem, n) ==
    value_1_of_c_MMS_over(val, Range(rem), n)

\* The share that the tests of Stage 1 and Stage 5 compare with: the
\* attribute p.mms, whatever the list rem of unallocated items.
ThresholdMMS(m, val, rem, n) == m

\* Where the call would go on, at next, were the oracle's exception caught
\* and ignored.
OracleFailure_Caught(next) == next

\* agn_v.value_1_of_c_MMS(...) and p1.partition_1_of_c_MMS(...) are called
\* outside any try block: an exception they raise ends the call.
OracleFailure(next) == "raised"

\* if potential_value >= gamma * p.mms
ReachesGMMS(potential_value, g, m) == AtLeastGammaTimes(potential_value, g, m)

\* The committed agent keeps both items of its working bundle.
Stage5Kept_Both(aq) == aq

\* p.aq_items = [p.aq_items[1]]
Stage5Kept(aq) == <<aq[2]>>

\* [items_remaining.remove(p_obj[0]) for p_obj in bundle_items]
RECURSIVE Stage5Pool(_, _)
Stage5Pool(rem, bundle_items) ==
    IF bundle_items = <<>> THEN rem
    ELSE Stage5Pool(Remove(rem, Head(bundle_items)), Tail(bundle_items))

\* The else branch records a bundle for every agent of the call.
FallThroughRecorded_Everyone(d) == DOMAIN agents

\* for k, v in agents_dict.items(): allocations[agents.index(v)] = ...:
\* the agents whose bundle the else branch records, for active agents d.
FallThroughRecorded(d) == d

\* if len(agents_dict) == 0 or len(items_remaining) == 0
EarlyReturnTest(d, rem) == d = {} \/ rem = <<>>

\* ------------------------------------------------------------- the input
\* An agent values a prefix of the items, possibly empty, at MaxVal and the
\* other items at 1.
Valuations(m) ==
    {[i \in 1..m |-> IF i <= k THEN MaxVal ELSE 1] : k \in 0..m}

\* list(items): the orders in which the set of items may be enumerated.
Enumerations(S) == {SortedSeq(S), Reverse(SortedSeq(S))}

\* The second doctest of fair_enough, every value multiplied by 100.
Doctest6 ==
    << <<21, 100, 100, 100, 100, 100>>,
       <<100, 100, 100, 100, 100, 100>>,
       <<100, 100, 100, 100, 100, 100>> >>

\* The third doctest of fair_enough: seven items that everybody values at 1.
Doctest7 ==
    << <<1, 1, 1, 1, 1, 1, 1>>,
       <<1, 1, 1, 1, 1, 1, 1>>,
       <<1, 1, 1, 1, 1, 1, 1>> >>

\* The fourth doctest of fair_enough, every value multiplied by 10.
Doctest12 ==
    << <<11, 10, 10, 10, 10, 10, 31, 29, 20, 30, 30, 10>>,
       <<10, 10, 10, 10, 10, 10, 44, 41, 21, 20, 20, 10>>,
       <<10, 10, 10, 10, 10, 10, 40, 40, 20, 32, 22, 10>> >>

\* Three agents and twelve items worth 1 or 2, within the documented limit
\* of 3n+4 items.
Mixed12 ==
    << <<1, 1, 2, 2, 1, 2, 1, 2, 1, 2, 2, 1>>,
       <<2, 1, 2, 1, 1, 2, 2, 1, 1, 2, 2, 2>>,
       <<1, 1, 1, 1, 2, 1, 1, 2, 2, 2, 2, 2>> >>

\* Three agents and eleven items worth 1 to 6, within the same limit.
Swapping11 ==
    << <<4, 5, 5, 4, 4, 5, 4, 4, 2, 5, 2>>,
       <<5, 6, 5, 6, 3, 5, 6, 1, 4, 1, 4>>,
       <<4, 5, 5, 4, 5, 2, 2, 6, 2, 2, 1>> >>

\* The second doctest without its third agent Eve: Alice and Bob alone.
SkewedPair ==
    << <<21, 100, 100, 100, 100, 100>>,
       <<100, 100, 100, 100, 100, 100>> >>

DocumentedInstances ==
    {Doctest6, SkewedPair, Doctest7, Doctest12, Mixed12, Swapping11}

\* No call of course_allocation_by_proxy_auction is under way.
AuctionIdle ==
    /\ instance = [valuations |-> <<>>, agent_capacities |-> <<>>,
                   item_capacities |-> 0]
    /\ auction_pc = "idle"
    /\ list_of_course_preference = <<>>
    /\ bids_coins = <<>>
    /\ Ac = <<>>
    /\ active = FALSE
    /\ turn = 0
    /\ bundles = <<>>
    /\ seen = {}

Init ==
    /\ \/ \E n \in 0..MaxAgents, m \in 0..MaxItems :
             /\ agents \in [1..n -> Valuations(m)]
             /\ items = 1..m
       \/ /\ agents \in DocumentedInstances
          /\ items = 1..Len(agents[1])
    /\ pc = "call"
    /\ agents_dict = {}
    /\ allocations = <<>>
    /\ gamma = <<0, 1>>
    /\ mms = <<>>
    /\ items_remaining = <<>>
    /\ tmp_items_list = <<>>
    /\ aq_items = [a \in DOMAIN agents |-> <<>>]
    /\ has_eliminate = FALSE
    /\ iter_count = 0
    /\ assigned = [a \in DOMAIN agents |-> <<"none", 0, {}>>]
    /\ residual = <<0, 0>>
    /\ call = 1
    /\ firstResult = <<>>
    /\ error = NoError
    /\ AuctionIdle

\* ----------------------------------------------------------- the actions
\* agents_dict, allocations, gamma, the agents' mms, items_remaining.
Setup ==
    /\ pc = "call"
    /\ \E order \in Enumerations(items) : items_remaining' = order
    /\ agents_dict' = DOMAIN agents
    /\ allocations' = [a \in DOMAIN agents |-> None]
    /\ gamma' = InitialGamma(Len(agents))
    /\ mms' = [a \in DOMAIN agents |-> InitialMMS(agents[a], Len(agents))]
    /\ pc' = "stage1"
    /\ UNCHANGED <<agents, items, tmp_items_list, aq_items, has_eliminate,
                   iter_count, assigned, residual, call, firstResult,
                   error>>
    /\ UNCHANGED auctionVars

\* The MMS oracle raises ResourceExhausted while the shares are computed:
\* agents_dict, allocations and gamma are set, items_remaining is not yet.
SetupRaises ==
    /\ pc = "call"
    /\ agents # <<>>
    /\ agents_dict' = DOMAIN agents
    /\ allocations' = [a \in DOMAIN agents |-> None]
    /\ gamma' = InitialGamma(Len(agents))
    /\ mms' = [a \in DOMAIN agents |-> 0]
    /\ error' = ResourceExhausted
    /\ pc' = OracleFailure("stage1")
    /\ UNCHANGED <<agents, items, items_remaining, tmp_items_list, aq_items,
                   has_eliminate, iter_count, assigned, residual, call,
                   firstResult>>
    /\ UNCHANGED auctionVars

\* The agents for which get_gmm_item finds an item.
Stage1Candidates ==
    {a \in agents_dict :
        get_gmm_item(agents[a], items_remaining,
                     ThresholdGamma(gamma, agents_dict),
                     ThresholdMMS(mms[a], agents[a], items_remaining,
                                  Len(agents))) # NoItem}

\* Stage 1, a pass that eliminates the first agent that has such an item.
Stage1Eliminate ==
    /\ pc = "stage1"
    /\ Stage1Candidates # {}
    /\ LET a == Min(Stage1Candidates)
           g == get_gmm_item(agents[a], items_remaining,
                             ThresholdGamma(gamma, agents_dict),
                             ThresholdMMS(mms[a], agents[a], items_remaining,
                                          Len(agents)))
       IN  /\ items_remaining' = Remove(items_remaining, g)
           /\ allocations' = [allocations EXCEPT ![a] = Stage1Bundle(g)]
           /\ agents_dict' = agents_dict \ {a}
           /\ assigned' = [assigned EXCEPT
                              ![a] = <<"stage1", Cardinality(agents_dict),
                                       Range(items_remaining)>>]
    /\ UNCHANGED <<agents, items, pc, gamma, mms, tmp_items_list, aq_items,
                   has_eliminate, iter_count, residual, call, firstResult,
                   error>>
    /\ UNCHANGED auctionVars

\* Stage 1, a pass that eliminates nobody: the loop ends.
Stage1End ==
    /\ pc = "stage1"
    /\ Stage1Candidates = {}
    /\ pc' = "stage2"
    /\ UNCHANGED <<agents, items, agents_dict, allocations, gamma, mms,
                   items_remaining, tmp_items_list, aq_items, has_eliminate,
                   iter_count, assigned, residual, call, firstResult,
                   error>>
    /\ UNCHANGED auctionVars

\* Stage 2: exactly two agents are left; p1 splits, p2 chooses.
Stage2Split ==
    /\ pc = "stage2"
    /\ Cardinality(agents_dict) = 2
    /\ LET p1 == Min(agents_dict)
           p2 == Max(agents_dict)
           mms_2_part == Stage2Partition(agents[p1], agents[p2],
                                         items_remaining)
           k == Stage2Take(value(agents[p2], mms_2_part[1]),
                           value(agents[p2], mms_2_part[2]))
       IN  /\ allocations' = [allocations EXCEPT ![p1] = mms_2_part[k[1]],
                                                 ![p2] = mms_2_part[k[2]]]
           /\ assigned' = [assigned EXCEPT
                  ![p1] = <<"stage2 p1", 2, Range(items_remaining)>>,
                  ![p2] = <<"stage2 p2", 2, Range(items_remaining)>>]
    /\ pc' = "done"
    /\ UNCHANGED <<agents, items, agents_dict, gamma, mms, items_remaining,
                   tmp_items_list, aq_items, has_eliminate, iter_count,
                   residual, call, firstResult,
                   error>>
    /\ UNCHANGED auctionVars

\* Stage 2: the MMS oracle raises ResourceExhausted when p1 asks for the
\* partition.
Stage2Raises ==
    /\ pc = "stage2"
    /\ Cardinality(agents_dict) = 2
    /\ error' = ResourceExhausted
    /\ pc' = OracleFailure("done")
    /\ UNCHANGED <<agents, items, agents_dict, allocations, gamma, mms,
                   items_remaining, tmp_items_list, aq_items, has_eliminate,
                   iter_count, assigned, residual, call, firstResult>>
    /\ UNCHANGED auctionVars

\* Stage 2 is skipped; has_eliminate = True before the loop of Stages 3-5.
Stage2Skip ==
    /\ pc = "stage2"
    /\ Cardinality(agents_dict) # 2
    /\ has_eliminate' = TRUE
    /\ pc' = "round"
    /\ UNCHANGED <<agents, items, agents_dict, allocations, gamma, mms,
                   items_remaining, tmp_items_list, aq_items, iter_count,
                   assigned, residual, call, firstResult,
                   error>>
    /\ UNCHANGED auctionVars

\* Start of a round and Stage 3: the forward pass on a fresh snapshot.
Stage3 ==
    /\ pc = "round"
    /\ WhileStage35(has_eliminate, items_remaining, agents_dict)
    /\ has_eliminate' = FALSE
    /\ LET cleared == [a \in DOMAIN aq_items |->
                          IF a \in agents_dict THEN <<>> ELSE aq_items[a]]
           r == cycle_allocation(agents, SortedAgents(agents_dict), cleared,
                                 items_remaining)
       IN  /\ aq_items' = r[1]
           /\ tmp_items_list' = r[2]
    /\ pc' = "stage4"
    /\ UNCHANGED <<agents, items, agents_dict, allocations, gamma, mms,
                   items_remaining, iter_count, assigned, residual, call,
                   firstResult,
                   error>>
    /\ UNCHANGED auctionVars

\* Stage 4: the reverse pass.
Stage4 ==
    /\ pc = "stage4"
    /\ LET r == cycle_allocation(agents, Reverse(SortedAgents(agents_dict)),
                                 aq_items, tmp_items_list)
       IN  /\ aq_items' = r[1]
           /\ tmp_items_list' = r[2]
    /\ pc' = "stage5"
    /\ UNCHANGED <<agents, items, agents_dict, allocations, gamma, mms,
                   items_remaining, has_eliminate, iter_count, assigned,
                   residual, call, firstResult,
                   error>>
    /\ UNCHANGED auctionVars

\* The agents whose potential value reaches gamma * mms in Stage 5.
Stage5Candidates ==
    {p \in agents_dict :
        ReachesGMMS(get_highest_value(agents[p], aq_items[p],
                                      tmp_items_list)[1],
                    ThresholdGamma(gamma, agents_dict),
                    ThresholdMMS(mms[p], agents[p], items_remaining,
                                 Len(agents)))}

\* Stage 5: the first such agent, in name order, takes its bundle and leaves.
Stage5Commit ==
    /\ pc = "stage5"
    /\ tmp_items_list # <<>>
    /\ Stage5Candidates # {}
    /\ LET p == Min(Stage5Candidates)
           bundle_items == get_highest_value(agents[p], aq_items[p],
                                             tmp_items_list)[2]
           final == Stage5Kept(aq_items[p]) \o bundle_items
       IN  /\ has_eliminate' = TRUE
           /\ items_remaining' = Stage5Pool(items_remaining, bundle_items)
           /\ aq_items' = [aq_items EXCEPT ![p] = final]
           /\ allocations' = [allocations EXCEPT ![p] = Range(final)]
           /\ agents_dict' = agents_dict \ {p}
           /\ assigned' = [assigned EXCEPT
                              ![p] = <<"stage5", Cardinality(agents_dict),
                                       Range(items_remaining)>>]
    /\ pc' = "round"
    /\ UNCHANGED <<agents, items, gamma, mms, tmp_items_list, iter_count,
                   residual, call, firstResult,
                   error>>
    /\ UNCHANGED auctionVars

\* Stage 5: items are left in the snapshot and no agent reaches its share.
Stage5NoCommit ==
    /\ pc = "stage5"
    /\ tmp_items_list # <<>>
    /\ Stage5Candidates = {}
    /\ pc' = "round"
    /\ UNCHANGED <<agents, items, agents_dict, allocations, gamma, mms,
                   items_remaining, tmp_items_list, aq_items, has_eliminate,
                   iter_count, assigned, residual, call, firstResult,
                   error>>
    /\ UNCHANGED auctionVars

\* The else branch: the two passes took every item of the snapshot.
Stage5Else ==
    /\ pc = "stage5"
    /\ tmp_items_list = <<>>
    /\ items_remaining' = tmp_items_list
    /\ allocations' = [a \in DOMAIN allocations |->
                          IF a \in FallThroughRecorded(agents_dict)
                          THEN Range(aq_items[a])
                          ELSE allocations[a]]
    /\ pc' = "round"
    /\ UNCHANGED <<agents, items, agents_dict, gamma, mms, tmp_items_list,
                   aq_items, has_eliminate, iter_count, assigned, residual,
                   call, firstResult,
                   error>>
    /\ UNCHANGED auctionVars

\* The loop of Stages 3-5 ends.
LoopExit ==
    /\ pc = "round"
    /\ ~WhileStage35(has_eliminate, items_remaining, agents_dict)
    /\ pc' = "exit35"
    /\ UNCHANGED <<agents, items, agents_dict, allocations, gamma, mms,
                   items_remaining, tmp_items_list, aq_items, has_eliminate,
                   iter_count, assigned, residual, call, firstResult,
                   error>>
    /\ UNCHANGED auctionVars

\* No agent or no item is left: return.
EarlyReturn ==
    /\ pc = "exit35"
    /\ EarlyReturnTest(agents_dict, items_remaining)
    /\ pc' = "done"
    /\ UNCHANGED <<agents, items, agents_dict, allocations, gamma, mms,
                   items_remaining, tmp_items_list, aq_items, has_eliminate,
                   iter_count, assigned, residual, call, firstResult,
                   error>>
    /\ UNCHANGED auctionVars

\* Entry to Stages 6-7: the pool is sorted, iter_count = 0.
EnterStage67 ==
    /\ pc = "exit35"
    /\ ~EarlyReturnTest(agents_dict, items_remaining)
    /\ items_remaining' = Sort(items_remaining)
    /\ iter_count' = 0
    /\ residual' = <<Len(items_remaining), Cardinality(agents_dict)>>
    /\ pc' = "stage67"
    /\ UNCHANGED <<agents, items, agents_dict, allocations, gamma, mms,
                   tmp_items_list, aq_items, has_eliminate, assigned, call,
                   firstResult,
                   error>>
    /\ UNCHANGED auctionVars

\* The graph with an edge a -> b also when a values the two bundles the same.
envy_graph_NotLess ==
    {e \in agents_dict \X agents_dict :
        /\ e[1] # e[2]
        /\ valueList(agents[e[1]], aq_items[e[1]]) <=
           valueList(agents[e[1]], aq_items[e[2]])}

\* The graph taken to have no edge.
envy_graph_NoEdges == {}

\* envy_graph = create_envy_graph(agents_dict)
envy_graph == create_envy_graph(agents, agents_dict, aq_items)

\* Stage 6: an iteration that finds a cycle and rotates the bundles on it.
Stage6Rotate ==
    /\ pc = "stage67"
    /\ items_remaining # <<>>
    /\ \E c \in Cycles(envy_graph, agents_dict) :
          aq_items' = RotateBundles(aq_items, c)
    /\ iter_count' = iter_count + 1
    /\ UNCHANGED <<agents, items, pc, agents_dict, allocations, gamma, mms,
                   items_remaining, tmp_items_list, has_eliminate, assigned,
                   residual, call, firstResult,
                   error>>
    /\ UNCHANGED auctionVars

\* Stage 7: no cycle; hand_item_to_non_envy gives the last item of the pool
\* to the first agent nobody envies and records that agent's bundle.
Stage7Hand ==
    /\ pc = "stage67"
    /\ items_remaining # <<>>
    /\ Cycles(envy_graph, agents_dict) = {}
    /\ Unenvied(envy_graph, agents_dict) # {}
    /\ LET a == Min(Unenvied(envy_graph, agents_dict))
           it == items_remaining[Len(items_remaining)]
           bundle == Append(aq_items[a], it)
       IN  /\ items_remaining' = SubSeq(items_remaining, 1,
                                        Len(items_remaining) - 1)
           /\ aq_items' = [aq_items EXCEPT ![a] = bundle]
           /\ allocations' = [allocations EXCEPT ![a] = Range(bundle)]
    /\ iter_count' = iter_count + 1
    /\ UNCHANGED <<agents, items, pc, agents_dict, gamma, mms,
                   tmp_items_list, has_eliminate, assigned, residual, call,
                   firstResult,
                   error>>
    /\ UNCHANGED auctionVars

\* The pool is empty: return.
Return67 ==
    /\ pc = "stage67"
    /\ items_remaining = <<>>
    /\ pc' = "done"
    /\ UNCHANGED <<agents, items, agents_dict, allocations, gamma, mms,
                   items_remaining, tmp_items_list, aq_items, has_eliminate,
                   iter_count, assigned, residual, call, firstResult,
                   error>>
    /\ UNCHANGED auctionVars

\* A second call of fair_enough on the same agents and the same items.
CallAgain ==
    /\ pc = "done"
    /\ call = 1
    /\ call' = 2
    /\ firstResult' = allocations
    /\ pc' = "call"
    /\ agents_dict' = {}
    /\ allocations' = <<>>
    /\ gamma' = <<0, 1>>
    /\ mms' = <<>>
    /\ items_remaining' = <<>>
    /\ tmp_items_list' = <<>>
    /\ has_eliminate' = FALSE
    /\ iter_count' = 0
    /\ assigned' = [a \in DOMAIN agents |-> <<"none", 0, {}>>]
    /\ residual' = <<0, 0>>
    /\ UNCHANGED <<agents, items, aq_items, error>>
    /\ UNCHANGED auctionVars

Next ==
    \/ Setup
    \/ SetupRaises
    \/ Stage1Eliminate
    \/ Stage1End
    \/ Stage2Split
    \/ Stage2Raises
    \/ Stage2Skip
    \/ Stage3
    \/ Stage4
    \/ Stage5Commit
    \/ Stage5NoCommit
    \/ Stage5Else
    \/ LoopExit
    \/ EarlyReturn
    \/ EnterStage67
    \/ Stage6Rotate
    \/ Stage7Hand
    \/ Return67

Spec == Init /\ [][Next]_vars

\* Two calls in a row.
NextTwice == Next \/ CallAgain

SpecTwice == Init /\ [][NextTwice]_vars

\* ====================== course_allocation_by_proxy_auction (the auction)
\* Agents are the indices 1..n of instance.agents, courses the indices 1..m
\* of instance.items.  A bid belongs to one agent and sits at most once in
\* the list of a course, so the lists of bids are modelled as sets.

\* Instance.agents, Instance.items and the three accessors the auction uses.
instance_agents == DOMAIN instance.valuations
instance_items ==
    IF instance.valuations = <<>> THEN {} ELSE DOMAIN instance.valuations[1]
agent_item_value(agent, x) == instance.valuations[agent][x]
agent_capacity(agent) == instance.agent_capacities[agent]
item_capacity(course) == instance.item_capacities

\* sorted(instance.items, key=lambda x: instance.agent_item_value(agent, x)):
\* ascending in the value, courses of equal value in the order of items.
sorted_by_value(agent) ==
    LET width == Cardinality(instance_items) + 1
        keys == SortedSeq({agent_item_value(agent, x) * width + x :
                              x \in instance_items})
    IN  [j \in 1..Len(keys) |-> keys[j] % width]

\* create_turns(num_players, num_picks): int(num_picks / num_players) rounds,
\* the even ones in the order of the players, the odd ones reversed.
create_turns(num_players, num_picks) ==
    [j \in 1..(num_players * (num_picks \div num_players)) |->
        LET round == (j - 1) \div num_players
            place == (j - 1) % num_players
        IN  IF round % 2 = 0 THEN place + 1 ELSE num_players - place]

\* sum([agent_capacity(agent) for agent in agents])
RECURSIVE sum_of_capacities(_)
sum_of_capacities(S) ==
    IF S = {} THEN 0
    ELSE LET agent == CHOOSE x \in S : TRUE
         IN  agent_capacity(agent) + sum_of_capacities(S \ {agent})

\* create_bid_sets(agents, agent_capacity): the bids num_of_bids, ..., 1 are
\* dealt in the order of turn_list.
create_bid_sets ==
    LET num_of_bids == sum_of_capacities(instance_agents)
        turn_list == create_turns(Cardinality(instance_agents), num_of_bids)
    IN  [agent \in instance_agents |->
            {num_of_bids - (j - 1) : j \in {t \in 1..Len(turn_list) :
                                               turn_list[t] = agent}}]

has_common_object(list1, list2) == list1 \cap list2 # {}

\* None, as returned by calculate_b_star and calculate_b_double_star; bids
\* are positive.
NoBid == 0

\* min of the bids of Bi that are not in B_tag_i and are above p_Ac, or None
calculate_b_star(Bi, B_tag_i, p_Ac) ==
    LET Bi_without_B_tag_i == {bid \in Bi : bid \notin B_tag_i /\ bid > p_Ac}
    IN  IF Bi_without_B_tag_i = {} THEN NoBid ELSE Min(Bi_without_B_tag_i)

\* b** chosen strictly above b*: the bid that holds the seat cannot pay for
\* it.
calculate_b_double_star_Strict(Bi, B_tag_i, b_star) ==
    LET above == {bid \in Bi : bid \notin B_tag_i /\ bid > b_star}
    IN  IF above = {} THEN NoBid ELSE Min(above)

\* min of the bids of Bi that are not in B_tag_i and are at least b_star, or
\* None
calculate_b_double_star(Bi, B_tag_i, b_star) ==
    LET Bi_without_B_tag_i ==
            {bid \in Bi : bid \notin B_tag_i /\ bid >= b_star}
    IN  IF Bi_without_B_tag_i = {} THEN NoBid ELSE Min(Bi_without_B_tag_i)

\* A seat taken to cost nothing even when the course is full.
price_Free(seats, course) == 0

\* 0 if len(Ac[course]) < instance.item_capacity(course) else min(Ac[course])
price(seats, course) ==
    IF Cardinality(seats) < item_capacity(course) THEN 0 ELSE Min(seats)

\* The bid is appended and no bid is removed.
seat_bid_KeepsAll(seats, course, min_bid_to_add) ==
    seats \cup {min_bid_to_add}

\* Ac[course].append(min_bid_to_add), then the lowest bid is removed when the
\* course holds more bids than it has seats.
seat_bid(seats, course, min_bid_to_add) ==
    LET appended == seats \cup {min_bid_to_add}
    IN  IF Cardinality(appended) > item_capacity(course)
        THEN appended \ {Min(appended)}
        ELSE appended

\* The body of 'for course in list_of_course_preference[i]' for the courses
\* of pref in turn: <<Ac, active>> after the last one.
RECURSIVE bid_on_courses(_, _, _, _, _)
bid_on_courses(pref, Bi, A, B_TAG, act) ==
    IF pref = <<>> THEN <<A, act>>
    ELSE LET course == Head(pref)
         IN  IF ~has_common_object(Bi, A[course])
             THEN LET p_Ac == price(A[course], course)
                      b_star == calculate_b_star(Bi, B_TAG, p_Ac)
                      min_bid_to_add == Min({bid \in Bi : bid > p_Ac})
                  IN  IF b_star # NoBid
                      THEN bid_on_courses(Tail(pref), Bi,
                               [A EXCEPT ![course] =
                                   seat_bid(@, course, min_bid_to_add)],
                               B_TAG \cup {b_star}, TRUE)
                      ELSE bid_on_courses(Tail(pref), Bi, A, B_TAG, act)
             ELSE LET b_star == CHOOSE bid \in Bi : bid \in A[course]
                      b_double_star ==
                          calculate_b_double_star(Bi, B_TAG, b_star)
                  IN  IF b_double_star # NoBid
                      THEN bid_on_courses(Tail(pref), Bi, A,
                               B_TAG \cup {b_double_star}, act)
                      ELSE bid_on_courses(Tail(pref), Bi,
                               [A EXCEPT ![course] = @ \ {b_star}],
                               B_TAG, act)

\* The courses in which agent holds a seat.
courses_of(agent) ==
    {course \in instance_items :
        has_common_object(bids_coins[agent], Ac[course])}

\* dict(bundles): only the agents that hold a seat are keys.
make_bundles ==
    [agent \in {a \in instance_agents : courses_of(a) # {}} |->
        courses_of(agent)]

\* ------------------------------------------------ the auction's input
\* An agent's values of the m courses: 1..m in a rotated order, or 1 for
\* every course.
CourseValuations(m) ==
    {[x \in 1..m |-> ((x - 1 + s) % m) + 1] : s \in 0..(m - 1)}
        \cup {[x \in 1..m |-> 1]}

\* The capacities of n agents: one capacity for all, or the smallest for the
\* first agent and the largest for the others.
AgentCapacities(n) ==
    {[agent \in 1..n |-> k] : k \in 1..MaxCapacity}
        \cup {[agent \in 1..n |-> IF agent = 1 THEN 1 ELSE MaxCapacity]}

\* Instance(valuations=..., item_capacities=q, agent_capacities=...), the
\* agents' capacities given as one number for all or agent by agent.
Instances ==
    UNION {{[valuations |-> v, agent_capacities |-> c, item_capacities |-> q] :
               v \in [1..n -> CourseValuations(m)],
               c \in AgentCapacities(n),
               q \in 1..MaxSeats} :
           n \in 1..MaxStudents, m \in 1..MaxCourses}

\* No call of fair_enough is under way.
FairEnoughIdle ==
    /\ agents = <<>>
    /\ items = {}
    /\ pc = "idle"
    /\ agents_dict = {}
    /\ allocations = <<>>
    /\ gamma = <<0, 1>>
    /\ mms = <<>>
    /\ items_remaining = <<>>
    /\ tmp_items_list = <<>>
    /\ aq_items = <<>>
    /\ has_eliminate = FALSE
    /\ iter_count = 0
    /\ assigned = <<>>
    /\ residual = <<0, 0>>
    /\ call = 1
    /\ firstResult = <<>>
    /\ error = NoError

InitAuction ==
    /\ instance \in Instances
    /\ auction_pc = "call"
    /\ list_of_course_preference = <<>>
    /\ bids_coins = <<>>
    /\ Ac = <<>>
    /\ active = FALSE
    /\ turn = 0
    /\ bundles = <<>>
    /\ seen = {}
    /\ FairEnoughIdle

\* ------------------------------------------------ the auction's actions
\* The preference lists, the bids, the empty courses, active = True.
AuctionSetup ==
    /\ auction_pc = "call"
    /\ list_of_course_preference' =
           [agent \in instance_agents |-> sorted_by_value(agent)]
    /\ bids_coins' = create_bid_sets
    /\ Ac' = [course \in instance_items |-> {}]
    /\ active' = TRUE
    /\ auction_pc' = "while"
    /\ UNCHANGED <<instance, turn, bundles, seen>>
    /\ UNCHANGED fairEnoughVars

\* while active: active = False, and the for loop starts with the first
\* agent.
BeginPass ==
    /\ auction_pc = "while"
    /\ active
    /\ active' = FALSE
    /\ turn' = 1
    /\ seen' = seen \cup {Ac}
    /\ auction_pc' = "for"
    /\ UNCHANGED <<instance, list_of_course_preference, bids_coins, Ac,
                   bundles>>
    /\ UNCHANGED fairEnoughVars

\* One iteration of 'for i, agent in enumerate(instance.agents)': the agent
\* bids on its courses in the order of its preference list.
AgentBids ==
    /\ auction_pc = "for"
    /\ turn \in instance_agents
    /\ LET r == bid_on_courses(list_of_course_preference[turn],
                               bids_coins[turn], Ac, {}, active)
       IN  /\ Ac' = r[1]
           /\ active' = r[2]
    /\ turn' = turn + 1
    /\ UNCHANGED <<instance, auction_pc, list_of_course_preference,
                   bids_coins, bundles, seen>>
    /\ UNCHANGED fairEnoughVars

\* The for loop has served every agent: back to the test of the while loop.
EndPass ==
    /\ auction_pc = "for"
    /\ turn \notin instance_agents
    /\ auction_pc' = "while"
    /\ UNCHANGED <<instance, list_of_course_preference, bids_coins, Ac,
                   active, turn, bundles, seen>>
    /\ UNCHANGED fairEnoughVars

\* The while loop ends; bundles is built from Ac and returned.
ReturnBundles ==
    /\ auction_pc = "while"
    /\ ~active
    /\ bundles' = make_bundles
    /\ auction_pc' = "returned"
    /\ UNCHANGED <<instance, list_of_course_preference, bids_coins, Ac,
                   active, turn, seen>>
    /\ UNCHANGED fairEnoughVars

NextAuction ==
    \/ AuctionSetup
    \/ BeginPass
    \/ AgentBids
    \/ EndPass
    \/ ReturnBundles

SpecAuction == InitAuction /\ [][NextAuction]_vars

\* ------------------------------------------------------------ the claims
\* The bundle recorded for agent a; an unset entry holds no item.
Bundle(a) == IF allocations[a] = None THEN {} ELSE allocations[a]

\* The agents that hold item i in their recorded bundle.
Holders(i) == {a \in DOMAIN allocations : i \in Bundle(a)}

\* The unallocated pool when the call returns; Stage 2 hands out all of it.
Leftover ==
    IF \E a \in DOMAIN assigned : assigned[a][1] = "stage2 p1" THEN {}
    ELSE Range(items_remaining)

\* C1: when fair_enough returns, every item of the input is in exactly one
\* place, one agent's final bundle or the leftover pool, and no bundle holds
\* anything that is not an input item.
C1_EveryItemInOnePlace ==
    pc = "done" =>
        /\ \A i \in items :
              Cardinality(Holders(i)) + (IF i \in Leftover THEN 1 ELSE 0) = 1
        /\ \A a \in DOMAIN allocations : Bundle(a) \subseteq items

\* C2: with at least 3 agents and at most 3n+4 items, every final bundle is
\* worth, to its agent, at least calc_gamma(n) times the agent's 1-out-of-n
\* maximin share of all the items.
C2_EveryAgentGetsGammaMMS ==
    (pc = "done" /\ Len(agents) >= 3
        /\ Cardinality(items) <= 3 * Len(agents) + 4) =>
        \A a \in DOMAIN agents :
            allocations[a] # None =>
                AtLeastGammaTimes(value(agents[a], allocations[a]),
                                  calc_gamma(Len(agents)), mms[a])

\* The agents whose final bundle comes from Stage 1 or from a Stage 5 commit.
Committed == {a \in DOMAIN assigned : assigned[a][1] \in {"stage1", "stage5"}}

\* C3 as stated: a bundle assigned by Stage 1 or by a Stage 5 commit is worth
\* at least gamma(k) * mms(agent, k), for k the number of agents that were
\* active at the moment of the assignment. The share is taken over the items
\* unallocated at that moment, the reading that asks least: over all the
\* items the share is no smaller.
C3_ShareForActiveCount ==
    \A a \in Committed :
        AtLeastGammaTimes(
            value(agents[a], allocations[a]),
            calc_gamma(assigned[a][2]),
            value_1_of_c_MMS([i \in assigned[a][3] |-> agents[a][i]],
                             assigned[a][2]))

\* C3 amended: a bundle assigned by Stage 1 or by a Stage 5 commit is worth
\* at least gamma(n) * mms(agent, n), for n the number of agents of the call;
\* mms[a] holds mms(agent, n), the share computed when the call starts.
C3_ShareForInitialCount ==
    \A a \in Committed :
        AtLeastGammaTimes(value(agents[a], allocations[a]),
                          calc_gamma(Len(agents)), mms[a])

\* An agent committed by Stage 5 and an agent served by Stage 1, both after
\* an earlier elimination.
C3_Witness ==
    /\ \E a \in Committed :
          assigned[a][1] = "stage5" /\ assigned[a][2] < Len(agents)
    /\ \E a \in Committed :
          assigned[a][1] = "stage1" /\ assigned[a][2] < Len(agents)

\* The bundle agent a holds at this point: the recorded bundle of an
\* eliminated agent, the working bundle that an active agent carries into
\* Stages 6-7.
HeldNow(a) ==
    IF a \notin agents_dict THEN Bundle(a)
    ELSE IF pc \in {"exit35", "stage67"} THEN Range(aq_items[a])
    ELSE {}

\* C4: between the stages no item is both in items_remaining and in an
\* agent's bundle, and no item is in the bundles of two agents.
C4_ExclusiveOwnership ==
    pc \in {"stage1", "stage2", "stage4", "stage5", "round", "exit35",
            "stage67"} =>
        /\ \A a \in DOMAIN agents :
              HeldNow(a) \cap Range(items_remaining) = {}
        /\ \A a, b \in DOMAIN agents :
              a # b => HeldNow(a) \cap HeldNow(b) = {}

\* The agent whose valuation defined the partition of Stage 2.
PartitionerOfTwo ==
    {a \in DOMAIN assigned : Len(agents) = 2 /\ assigned[a][1] = "stage2 p1"}

\* C5 as stated: called with two agents, p1 ends with a bundle worth exactly
\* its 1-of-2 maximin share of the items.
C5_PartitionerGetsExactlyMMS ==
    pc = "done" =>
        \A a \in PartitionerOfTwo :
            value(agents[a], allocations[a]) = value_1_of_c_MMS(agents[a], 2)

\* C5 amended: called with two agents, p1 ends with a bundle worth at least
\* its 1-of-2 maximin share of the items.
C5_PartitionerGetsAtLeastMMS ==
    pc = "done" =>
        \A a \in PartitionerOfTwo :
            value(agents[a], allocations[a]) >= value_1_of_c_MMS(agents[a], 2)

\* A call with two agents in which p1 ends with more than its share.
C5_Witness ==
    /\ pc = "done"
    /\ \E a \in PartitionerOfTwo :
          value(agents[a], allocations[a]) > value_1_of_c_MMS(agents[a], 2)

\* The number of envy edges among the active agents.
EnvyEdges == Cardinality(envy_graph)

\* The largest rank of a state inside the loop of Stages 6-7.
Top67 ==
    1 + Cardinality(items) * (Len(agents) * Len(agents) + 1)
      + Len(agents) * Len(agents)

\* A natural number attached to every point of a call: 0 when the call has
\* returned; in Stages 6-7 the size of the pool first and the number of envy
\* edges second; in Stages 3-5 the number of active agents first and the
\* position in the round second; in Stage 1 the number of active agents.
Rank ==
    CASE pc \in {"done", "raised"} -> 0
      [] pc = "stage67" -> 1 + Len(items_remaining)
                                 * (Len(agents) * Len(agents) + 1)
                             + EnvyEdges
      [] pc = "exit35"   -> Top67 + 1
      [] pc = "round"   -> Top67 + 1 + 4 * Cardinality(agents_dict)
                             + (IF has_eliminate THEN 4 ELSE 1)
      [] pc = "stage5"  -> Top67 + 1 + 4 * Cardinality(agents_dict) + 2
      [] pc = "stage4"  -> Top67 + 1 + 4 * Cardinality(agents_dict) + 3
      [] pc = "stage2"  -> Top67 + 4 * Len(agents) + 6
      [] pc = "stage1"  -> Top67 + 4 * Len(agents) + 7
                             + Cardinality(agents_dict)
      [] pc = "call"    -> Top67 + 5 * Len(agents) + 8

\* A call that has not returned can take its next step: the only step with
\* a condition of its own is the hand-off of Stage 7, which needs an agent
\* nobody envies.
CanStep ==
    (pc = "stage67" /\ items_remaining # <<>>) =>
        \/ Cycles(envy_graph, agents_dict) # {}
        \/ Unenvied(envy_graph, agents_dict) # {}

\* C6: the loop of Stages 6-7 runs at most (residual items + residual
\* agents) iterations, rotations and hand-offs together, from every state
\* that Stages 3-5 leave.
C6_IterationsWithinResidual ==
    (pc \in {"stage67", "done"} /\ residual[2] > 0) =>
        iter_count <= residual[1] + residual[2]

\* C7: every run of fair_enough terminates. Every step of a call, an
\* iteration of the loop of Stage 1, of Stages 3-5 or of Stages 6-7
\* included, strictly lowers the rank, a natural number, and a call that has
\* not returned can always take a step; so no loop runs for ever, Stage 6
\* cannot rotate cycles for ever without a hand-off, and the call returns.
C7_EveryCallReturns == [][Rank' < Rank /\ CanStep']_vars

\* A call that returned after the loop of Stages 3-5 ran two rounds and an
\* iteration of Stage 6 rotated a cycle.
C7_Witness ==
    /\ pc = "done"
    /\ residual[2] > 0
    /\ iter_count > residual[1]
    /\ \E a \in DOMAIN assigned : assigned[a][1] = "stage5"

\* C8: a second call on the same agents and items returns the same bundles
\* as the first, whatever the order in which the items are enumerated.
C8_SameResultOnSecondCall ==
    (pc = "done" /\ call = 2) => allocations = firstResult

\* C9: with no agent or one agent the call fails with InvalidInputError
\* before anything else happens.
C9_TooFewAgentsRejected ==
    Len(agents) < 2 => pc \in {"call", "InvalidInputError"}

\* C10: with no item and two or more agents the call returns the empty set
\* as the bundle of every agent.
C10_NoItemsAllBundlesEmpty ==
    (pc = "done" /\ items = {} /\ Len(agents) >= 2) =>
        \A a \in DOMAIN agents : allocations[a] = {}

\* C11: when the MMS oracle fails with ResourceExhausted, while the shares
\* are computed before Stage 1 or while Stage 2 asks for the partition, the
\* call ends by raising: it goes on in no stage and returns no allocation.
C11_OracleFailureReachesCaller ==
    error = ResourceExhausted => pc = "raised"

\* The oracle failed in Stage 2 after Stage 1 had given an agent its item.
C11_Witness ==
    /\ pc = "raised"
    /\ error = ResourceExhausted
    /\ \E a \in DOMAIN allocations : allocations[a] # None

\* Three agents were given the items 1..m and value every one of them at 1.
UnitInstance(m) ==
    /\ Len(agents) = 3
    /\ items = 1..m
    /\ \A a \in DOMAIN agents : \A i \in items : agents[a][i] = 1

\* C12: three agents who value every item at 1: of six items every agent
\* ends with exactly two, worth 2 to it; of seven items every agent ends
\* with a bundle worth exactly 2 to it.
C12_UnitValuesTwoEach ==
    (pc = "done" /\ (UnitInstance(6) \/ UnitInstance(7))) =>
        \A a \in DOMAIN agents :
            /\ allocations[a] # None
            /\ value(agents[a], allocations[a]) = 2
            /\ UnitInstance(6) => Cardinality(allocations[a]) = 2

\* The call on seven unit items has returned, one item left unallocated.
C12_Witness ==
    /\ pc = "done"
    /\ UnitInstance(7)
    /\ \A a \in DOMAIN agents : value(agents[a], allocations[a]) = 2
    /\ Leftover # {}

\* C13 as stated: for the two agents Alice, who values item 1 at 0.21 and
\* the other five items at 1, and Bob, who values all six at 1, Alice ends
\* with a bundle worth exactly 1 to her and Bob with one worth at least 2
\* to him (values in hundredths).
C13_AliceOfTwoGetsOne ==
    (pc = "done" /\ agents = SkewedPair) =>
        /\ value(agents[1], Bundle(1)) = 100
        /\ value(agents[2], Bundle(2)) >= 200

\* C13 amended: for the three agents of the doctest, Alice and Bob as above
\* and Eve, who values all six items at 1, Alice ends with a bundle worth
\* exactly 1 to her and Bob with one worth at least 2 to him.
C13_AliceOfThreeGetsOne ==
    (pc = "done" /\ agents = Doctest6) =>
        /\ allocations[1] # None
        /\ allocations[2] # None
        /\ value(agents[1], allocations[1]) = 100
        /\ value(agents[2], allocations[2]) >= 200

\* The doctest's call has returned: Alice left in Stage 1 with one item.
C13_Witness ==
    /\ pc = "done"
    /\ agents = Doctest6
    /\ assigned[1][1] = "stage1"
    /\ value(agents[1], allocations[1]) = 100

\* The pairs <<p1, p2>> that Stage 2 served: p1 split, p2 chose.
Stage2Pairs ==
    {pr \in (DOMAIN assigned) \X (DOMAIN assigned) :
        assigned[pr[1]][1] = "stage2 p1" /\ assigned[pr[2]][1] = "stage2 p2"}

\* C16: in Stage 2, with <<H1, H2>> the 2-way MMS partition of the remaining
\* items by p1's valuation, p2 receives H1 if it values H1 at least as much
\* as H2 and H2 otherwise, p1 receives the other half; p2 does not value
\* p1's half strictly more than its own, and the two bundles together are
\* the remaining pool.
C16_ChooserTakesPreferredHalf ==
    pc = "done" =>
        \A pr \in Stage2Pairs :
            LET p1 == pr[1]
                p2 == pr[2]
                H == Stage2Partition(agents[p1], agents[p2], items_remaining)
                first == value(agents[p2], H[1]) >= value(agents[p2], H[2])
            IN  /\ allocations[p2] = IF first THEN H[1] ELSE H[2]
                /\ allocations[p1] = IF first THEN H[2] ELSE H[1]
                /\ value(agents[p2], allocations[p1])
                       <= value(agents[p2], allocations[p2])
                /\ allocations[p1] \cup allocations[p2]
                       = Range(items_remaining)
                /\ allocations[p1] \cap allocations[p2] = {}

\* Stage 2 has run and p2 took the second half, which it values strictly
\* more than the first.
C16_Witness ==
    /\ pc = "done"
    /\ \E pr \in Stage2Pairs :
          LET H == Stage2Partition(agents[pr[1]], agents[pr[2]],
                                   items_remaining)
          IN  /\ value(agents[pr[2]], H[1]) < value(agents[pr[2]], H[2])
              /\ allocations[pr[2]] = H[2]

\* C17: when Stage 5 commits an agent p, p's final bundle is the bundle
\* accumulated for p in the round, and every item of it is removed from the
\* unallocated pool items_remaining.
C17_CommitRemovesBundleFromPool ==
    [][(pc = "stage5" /\ agents_dict' # agents_dict) =>
          \A p \in agents_dict \ agents_dict' :
              /\ allocations'[p] = Range(aq_items'[p])
              /\ allocations'[p] \cap Range(items_remaining') = {}]_vars

\* A threshold test gamma * mms is evaluated in this state: a pass of Stage 1
\* over the active agents, or the commit pass of Stage 5.
ThresholdTested ==
    /\ agents_dict # {}
    /\ \/ pc = "stage1"
       \/ pc = "stage5" /\ tmp_items_list # <<>>

\* Equality of two fractions <<num, den>>.
SameFraction(f, g) == f[1] * g[2] = g[1] * f[2]

\* C18 as stated: whenever a threshold test is evaluated, the gamma it uses
\* is calc_gamma of the number of agents active at that moment.
C18_GammaOfActiveCount ==
    ThresholdTested =>
        SameFraction(ThresholdGamma(gamma, agents_dict),
                     calc_gamma(Cardinality(agents_dict)))

\* C18 amended: whenever a threshold test is evaluated, the gamma it uses is
\* calc_gamma of the number of agents the call started with, computed once.
C18_GammaOfInitialCount ==
    ThresholdTested =>
        SameFraction(ThresholdGamma(gamma, agents_dict),
                     calc_gamma(Len(agents)))

\* A test is evaluated after an elimination changed gamma's argument: the
\* call started with three agents and two are active.
C18_Witness ==
    /\ ThresholdTested
    /\ Len(agents) = 3
    /\ Cardinality(agents_dict) = 2
    /\ gamma = calc_gamma(3)

\* The share that the test of this state compares agent a's value with.
TestedShare(a) ==
    ThresholdMMS(mms[a], agents[a], items_remaining, Len(agents))

\* C19 as stated: the share that a threshold test compares with is the
\* agent's maximin share over the items unallocated at the time of the test,
\* for the number of agents of the call or for the number of active agents.
C19_ShareOverCurrentPool ==
    ThresholdTested =>
        \A a \in agents_dict :
            \/ TestedShare(a) = value_1_of_c_MMS_over(agents[a],
                                    Range(items_remaining), Len(agents))
            \/ TestedShare(a) = value_1_of_c_MMS_over(agents[a],
                                    Range(items_remaining),
                                    Cardinality(agents_dict))

\* C19 amended: the share that a threshold test compares with is the value
\* computed once, before Stage 1, over all the items for the number of
\* agents of the call; no later step changes it.
C19_ShareComputedOnceOverAllItems ==
    [][/\ (pc = "call" /\ pc' = "stage1") =>
              \A a \in DOMAIN agents :
                  mms'[a] = value_1_of_c_MMS_over(agents[a], items,
                                                  Len(agents))
       /\ ThresholdTested =>
              /\ \A a \in agents_dict : TestedShare(a) = mms[a]
              /\ mms' = mms]_vars

\* A test is evaluated when part of the items is allocated already and the
\* share over the unallocated items is smaller than the share compared with.
C19_Witness ==
    /\ ThresholdTested
    /\ Range(items_remaining) # items
    /\ \E a \in agents_dict :
          TestedShare(a) > value_1_of_c_MMS_over(agents[a],
                               Range(items_remaining), Len(agents))

\* The agents that were still active when Stage 1 ended.
RemainedAfterStage1 == {a \in DOMAIN assigned : assigned[a][1] # "stage1"}

\* C20: a round of Stages 3-5 is executed, in a call with at least two
\* agents, only when three or more agents remained active at the end of
\* Stage 1, and never when exactly one remained.
C20_RoundsOnlyForThreeOrMore ==
    (pc \in {"stage4", "stage5"} /\ Len(agents) >= 2) =>
        Cardinality(RemainedAfterStage1) >= 3

\* The courses that the returned dict gives to agent; none for an agent that
\* is not a key.
CoursesOf(agent) ==
    IF agent \in DOMAIN bundles THEN bundles[agent] ELSE {}

\* The agent's total value of the courses S.
RECURSIVE total_value(_, _)
total_value(agent, S) ==
    IF S = {} THEN 0
    ELSE LET x == CHOOSE y \in S : TRUE
         IN  agent_item_value(agent, x) + total_value(agent, S \ {x})

\* The allocations that respect every agent's capacity and every course's
\* capacity, an agent holding at most one seat of a course.
FeasibleAllocations ==
    {f \in [instance_agents -> SUBSET instance_items] :
        /\ \A agent \in instance_agents :
               Cardinality(f[agent]) <= agent_capacity(agent)
        /\ \A course \in instance_items :
               Cardinality({agent \in instance_agents : course \in f[agent]})
                   <= item_capacity(course)}

\* C14: the allocation returned by course_allocation_by_proxy_auction is
\* Pareto efficient: no feasible allocation gives every agent at least as
\* high a total value and some agent a strictly higher one.
C14_ReturnedAllocationParetoEfficient ==
    auction_pc = "returned" =>
        ~ \E f \in FeasibleAllocations :
            /\ \A agent \in instance_agents :
                   total_value(agent, f[agent])
                       >= total_value(agent, CoursesOf(agent))
            /\ \E agent \in instance_agents :
                   total_value(agent, f[agent])
                       > total_value(agent, CoursesOf(agent))

\* All the agents have the same valuations (and the same capacity), and the
\* capacities of the courses sum to the capacities of the agents.
IdenticalAgentsExactSeats ==
    /\ \A a, b \in instance_agents :
           /\ instance.valuations[a] = instance.valuations[b]
           /\ agent_capacity(a) = agent_capacity(b)
    /\ Cardinality(instance_items) * instance.item_capacities
           = sum_of_capacities(instance_agents)

\* Every agent is a key of the returned dict and holds exactly as many
\* courses as its capacity.
EveryAgentFull ==
    /\ DOMAIN bundles = instance_agents
    /\ \A agent \in instance_agents :
           Cardinality(bundles[agent]) = agent_capacity(agent)

Qualifying(a) ==
    {it \in Range(items_remaining) :
        AtLeastGammaTimes(agents[a][it], gamma, mms[a])}

\* A step of Stage 1 gives agent a one item: a is the first active agent, in
\* input order, with a qualifying item; the item is a qualifying item of the
\* lowest value; it leaves the pool, a leaves the active set, and Stage 1
\* goes on.
Stage1Assigns(a) ==
    /\ a \in agents_dict
    /\ Qualifying(a) # {}
    /\ \A b \in agents_dict : b < a => Qualifying(b) = {}
    /\ \E it \in Qualifying(a) :
          /\ \A other \in Qualifying(a) : agents[a][it] <= agents[a][other]
          /\ allocations' = [allocations EXCEPT ![a] = {it}]
          /\ Range(items_remaining') = Range(items_remaining) \ {it}
          /\ Len(items_remaining') = Len(items_remaining) - 1
    /\ agents_dict' = agents_dict \ {a}
    /\ pc' = "stage1"

Eliminated == IF pc = "call" THEN {} ELSE (DOMAIN agents) \ agents_dict

\* C22: once an agent is eliminated, by an assignment of Stage 1 or a commit
\* of Stage 5, no later step of the run changes its recorded bundle or its
\* working bundle: the rounds of Stages 3-5, the rotations and the hand-offs
\* of Stages 6-7 touch the bundles of active agents only.
C22_EliminatedBundleFrozen ==
    [][\A a \in Eliminated :
          /\ allocations'[a] = allocations[a]
          /\ aq_items'[a] = aq_items[a]]_vars

\* The call has returned after iterations of Stages 6-7 that followed a
\* commit of Stage 5.
C22_Witness ==
    /\ pc = "done"
    /\ iter_count > 0
    /\ \E a \in Eliminated : assigned[a][1] = "stage5"


\* The active agents that no stage has given a final bundle.
Uncommitted == {a \in agents_dict : assigned[a][1] = "none"}

\* C23: when fair_enough returns, allocations holds a set for every agent,
\* never None; an agent that was never committed is recorded with its working
\* bundle aq_items, both at the early return after Stages 3-5 and at the
\* entry to Stages 6-7.
C23_EveryAgentRecorded ==
    /\ pc = "done" => \A a \in DOMAIN allocations : allocations[a] # None
    /\ \/ pc = "done" /\ residual = <<0, 0>>
       \/ pc = "stage67" /\ iter_count = 0
       => \A a \in Uncommitted : allocations[a] = Range(aq_items[a])


Envies(a, b) ==
    /\ a # b
    /\ valueList(agents[a], aq_items[a]) < valueList(agents[a], aq_items[b])

\* The pairs joined by a path of at most k + 1 envy edges.
RECURSIVE EnvyPaths(_)
EnvyPaths(k) ==
    LET E == {e \in agents_dict \X agents_dict : Envies(e[1], e[2])}
    IN  IF k = 0 THEN E
        ELSE LET P == EnvyPaths(k - 1)
             IN  P \cup {<<x[1][1], x[2][2]>> :
                            x \in {y \in P \X E : y[1][2] = y[2][1]}}

\* The envy graph of the active agents has a directed cycle.
HasEnvyCycle ==
    \E a \in agents_dict : <<a, a>> \in EnvyPaths(Cardinality(agents_dict))


\* C25: in Stages 6-7 an item leaves the pool only in an iteration whose envy
\* graph over the active agents has no directed cycle; it is exactly one
\* item, it goes to the working bundle of an agent that no active agent
\* envies, and no other working bundle changes; and whenever the graph has no
\* cycle and an agent is active, an agent that nobody envies exists.
C25_HandOnlyWithoutCycleToUnenvied ==
    [][pc = "stage67" =>
          /\ ~HasEnvyCycle /\ agents_dict # {} =>
                \E a \in agents_dict : \A b \in agents_dict : ~Envies(b, a)
          /\ items_remaining' # items_remaining =>
                /\ ~HasEnvyCycle
                /\ \E a \in agents_dict, it \in Range(items_remaining) :
                      /\ \A b \in agents_dict : ~Envies(b, a)
                      /\ Range(items_remaining') = Range(items_remaining) \ {it}
                      /\ Len(items_remaining') = Len(items_remaining) - 1
                      /\ aq_items' = [aq_items EXCEPT ![a] = Append(@, it)]
                      /\ allocations'[a] = Range(aq_items'[a])]_vars

\* The call has returned after an iteration that rotated a cycle and an
\* iteration that handed an item to an agent other than the first active one.
C25_Witness ==
    /\ pc = "done"
    /\ residual[1] > 0
    /\ iter_count > residual[1]
    /\ \E a \in agents_dict : a # Min(agents_dict) /\ Len(aq_items[a]) > 2


\* The active agents that envy at least one active agent, for working
\* bundles aq.
Envious(aq) ==
    {a \in agents_dict : \E b \in agents_dict \ {a} :
        valueList(agents[a], aq[a]) < valueList(agents[a], aq[b])}

\* C26: a rotation of Stage 6 leaves no agent with a working bundle it values
\* less than the one it held, gives every agent whose bundle changed one it
\* values more, and does not increase the number of active agents that envy
\* somebody.
C26_RotationNeverHurts ==
    [][pc = "stage67" /\ aq_items' # aq_items
          /\ items_remaining' = items_remaining =>
          /\ \A a \in agents_dict :
                IF aq_items'[a] = aq_items[a] THEN TRUE
                ELSE valueList(agents[a], aq_items'[a]) >
                     valueList(agents[a], aq_items[a])
          /\ Cardinality(Envious(aq_items')) <= Cardinality(Envious(aq_items))]_vars

\* Stages 6-7 have done more iterations than hand-offs: a cycle was rotated.
C26_Witness ==
    /\ pc = "stage67"
    /\ iter_count > residual[1] - Len(items_remaining)


\* C27: in the allocation that course_allocation_by_proxy_auction returns,
\* every agent holds at most agent_capacity(agent) courses, also when the
\* agents' capacities differ.
C27_AgentsWithinCapacity ==
    auction_pc = "returned" =>
        \A agent \in instance_agents :
            Cardinality(CoursesOf(agent)) <= agent_capacity(agent)


\* C29: the bidding loop terminates.  The bids and the preference lists
\* never change, so a pass is a function of Ac alone, and the courses have
\* finitely many possible values of Ac: the loop runs for ever exactly if a
\* pass starts from a value of Ac that an earlier pass started from.  No pass
\* does, and the call returns only after a pass that placed no bid.
C29_BiddingLoopTerminates ==
    /\ auction_pc = "while" /\ active => Ac \notin seen
    /\ auction_pc = "returned" => ~active /\ seen # {}

\* The call has returned after five passes or more.
C29_Witness ==
    /\ auction_pc = "returned"
    /\ Cardinality(seen) >= 5


\* The courses whose list of bids holds the coin.
CoursesBackedBy(coin) == {course \in DOMAIN Ac : coin \in Ac[course]}

\* C28: at every point of the auction a bid coin lies in the list Ac of at
\* most one course: an agent never backs two courses with the same coin.
C28_CoinBacksOneCourse ==
    \A agent \in DOMAIN bids_coins : \A coin \in bids_coins[agent] :
        Cardinality(CoursesBackedBy(coin)) <= 1

\* Every course holds at most item_capacity(course) coins and at most one
\* coin of each agent, for lists of bids A.
WithinSeats(A) ==
    \A course \in DOMAIN A :
        /\ Cardinality(A[course]) <= item_capacity(course)
        /\ \A agent \in DOMAIN bids_coins :
               Cardinality(bids_coins[agent] \cap A[course]) <= 1

\* The courses that were full when the agent, holding no coin there, placed
\* one in this turn.
Overflowed ==
    {course \in DOMAIN Ac :
        /\ Cardinality(Ac[course]) = item_capacity(course)
        /\ ~has_common_object(bids_coins[turn], Ac[course])
        /\ has_common_object(bids_coins[turn], Ac'[course])}

\* C30: after every turn of the bidding and at return, Ac[course] holds at
\* most item_capacity(course) coins and at most one coin per agent, so no
\* course is given to more agents than it has seats; and when a new coin
\* overflows a course, the coin removed is the lowest coin of that course.
C30_CoursesWithinSeats ==
    [][/\ WithinSeats(Ac')
       /\ auction_pc' = "returned" =>
             \A course \in instance_items :
                 Cardinality({agent \in DOMAIN bundles' :
                                 course \in bundles'[agent]})
                     <= item_capacity(course)
       /\ auction_pc = "for" /\ turn \in instance_agents =>
             \A course \in Overflowed :
                 /\ Ac[course] \ Ac'[course] = {Min(Ac[course])}
                 /\ \A coin \in Ac'[course] : coin > Min(Ac[course])]_vars

\* The call has returned with a course that was full at the start of a pass
\* and is full again with a higher lowest coin: a coin was pushed out.
C30_Witness ==
    /\ auction_pc = "returned"
    /\ \E A \in seen : \E course \in DOMAIN Ac :
          /\ Cardinality(A[course]) = item_capacity(course)
          /\ Cardinality(Ac[course]) = item_capacity(course)
          /\ Min(Ac[course]) > Min(A[course])

====
